---- MODULE Spec2Model ----
(***************************************************************************)
(* ruffwrap (src/src/ruffwrap/cli.py): sentinel extraction from the        *)
(* wrapped tool's settings dump, executable resolution, path grouping and  *)
(* the batch / single runners.                                             *)
(*                                                                         *)
(* Text.  A Python str is a sequence of atoms.  An atom is a non-empty     *)
(* chunk of characters; the literals the regular expressions look for are  *)
(* atoms of their own, index digits and "+" are one-character atoms, and   *)
(* no literal straddles two atoms.  "" is the empty sequence.  An argv     *)
(* token is a str, an argv a sequence of tokens.                           *)
(***************************************************************************)
EXTENDS Integers, Sequences, FiniteSets, TLC

----------------------------------------------------------------------------
(* Atoms *)

HDR      == "linter.builtins = ["
RB       == "]"
COMMA    == ","
SP       == " "
TAB      == "\t"
UU       == "__"
EXEC_LIT == "__RUFFWRAP_EXEC__"
MODE_LIT == "__RUFFWRAP_MODE_"
CMD_LIT  == "_CMD_"
DEF_LIT  == "_DEFAULT_DEFINITION__"

Digits == {"0", "1", "2", "3", "4", "5", "6", "7", "8", "9"}

DigitVal(c) ==
    CASE c = "0" -> 0 [] c = "1" -> 1 [] c = "2" -> 2 [] c = "3" -> 3
      [] c = "4" -> 4 [] c = "5" -> 5 [] c = "6" -> 6 [] c = "7" -> 7
      [] c = "8" -> 8 [] c = "9" -> 9

\* the atoms all of whose characters are in [a-zA-Z0-9\-\_]
NameAtoms ==
    Digits \cup {UU, EXEC_LIT, MODE_LIT, CMD_LIT, DEF_LIT,
                 "m", "n", "hook", "hook-fix", "verify", "enroll",
                 "check", "format", "ruff", "uvx", "--fix", "--check", "E501"}

\* the one-character atoms the class [\d+] accepts: a digit or a plus sign
IdxAtoms == Digits \cup {"+"}

Max(a, b) == IF a >= b THEN a ELSE b

Last(s) == s[Len(s)]

Front(s) == SubSeq(s, 1, Len(s) - 1)

Min(S) == CHOOSE x \in S : \A y \in S : x <= y

----------------------------------------------------------------------------
(* shlex.split, for text without quotes or escapes: the maximal runs of    *)
(* atoms between blank atoms.                                              *)

RECURSIVE SplitFrom(_, _, _)
SplitFrom(s, i, cur) ==
    IF i > Len(s)
    THEN IF cur = <<>> THEN <<>> ELSE <<cur>>
    ELSE IF s[i] \in {SP, TAB}
         THEN (IF cur = <<>> THEN <<>> ELSE <<cur>>) \o SplitFrom(s, i + 1, <<>>)
         ELSE SplitFrom(s, i + 1, Append(cur, s[i]))

ShlexSplit(s) == SplitFrom(s, 1, <<>>)

\* a command line written as one word per atom
Words(ws) == [i \in DOMAIN ws |-> <<ws[i]>>]

\* {idx: shlex.split(cmd) for idx, cmd in enumerate(default_definition)}
Enumerate(cmds) == [i \in DOMAIN cmds |-> <<i - 1, cmds[i]>>]

----------------------------------------------------------------------------
(* Sentinel patterns.  Each XMatch(line) is the re.search of the pattern   *)
(* in the line: NoMatch, or the named groups of the leftmost match.        *)

NoMatch == [matched |-> FALSE, MODE |-> <<>>, IDX |-> "", ARGS |-> <<>>, EXEC |-> <<>>]

Groups(mode, idx, args, exec) ==
    [matched |-> TRUE, MODE |-> mode, IDX |-> idx, ARGS |-> args, EXEC |-> exec]

\* the pattern without its anchor ",$": the group runs to the end of the line
ExecMatchUnanchored(line) ==
    LET n == Len(line)
        starts == {i \in 1..n : line[i] = EXEC_LIT /\ i + 1 <= n}
    IN IF starts = {} THEN NoMatch
       ELSE Groups(<<>>, "", <<>>, SubSeq(line, Min(starts) + 1, n))

\* __RUFFWRAP_EXEC__(?P<EXEC>(.+)),$
ExecMatch(line) ==
    LET n == Len(line)
        starts == {i \in 1..n : line[i] = EXEC_LIT /\ i + 2 <= n /\ line[n] = COMMA}
    IN IF starts = {} THEN NoMatch
       ELSE Groups(<<>>, "", <<>>, SubSeq(line, Min(starts) + 1, n - 1))

\* __RUFFWRAP_MODE_(?P<MODE>([a-zA-Z0-9\-\_]+))_DEFAULT_DEFINITION__,$
DefaultDefinitionMatch(line) ==
    LET n == Len(line)
        starts == {i \in 1..n :
                     /\ line[i] = MODE_LIT
                     /\ i + 3 <= n
                     /\ line[n] = COMMA
                     /\ line[n - 1] = DEF_LIT
                     /\ \A k \in (i + 1)..(n - 2) : line[k] \in NameAtoms}
    IN IF starts = {} THEN NoMatch
       ELSE Groups(SubSeq(line, Min(starts) + 1, n - 2), "", <<>>, <<>>)

\* the positions j of "_CMD_" that complete a match begun at position i
CmdEnds(line, i) ==
    LET n == Len(line)
    IN {j \in (i + 2)..n :
          /\ line[j] = CMD_LIT
          /\ \A k \in (i + 1)..(j - 1) : line[k] \in NameAtoms
          /\ j + 3 <= n
          /\ line[j + 1] \in IdxAtoms
          /\ line[j + 2] = UU
          /\ line[n] = COMMA}

\* __RUFFWRAP_MODE_(?P<MODE>([a-zA-Z0-9\-\_]+))_CMD_(?P<IDX>([\d+]))__(?P<ARGS>(.*)),$
\* leftmost start, and for it the longest MODE (the quantifier is greedy)
CmdMatch(line) ==
    LET n == Len(line)
        starts == {i \in 1..n : line[i] = MODE_LIT /\ CmdEnds(line, i) # {}}
    IN IF starts = {} THEN NoMatch
       ELSE LET i == Min(starts)
                j == CHOOSE e \in CmdEnds(line, i) : \A f \in CmdEnds(line, i) : f <= e
            IN Groups(SubSeq(line, i + 1, j - 1), line[j + 1],
                      SubSeq(line, j + 3, n - 1), <<>>)

----------------------------------------------------------------------------
(* Built-in mode definitions: _get_<mode>_mode_default_definition.  A      *)
(* definition is a dict index -> argv, kept as the sequence of its items   *)
(* in insertion order.                                                     *)

HookModeDefaultDefinition(fix_arg) ==
    Enumerate(<<
        Words(<<"check", fix_arg>>),
        Words(<<"format">>),
        Words(<<"check", "--fix-only", "--select", "RUF100", "--quiet">>),
        Words(<<"check", "--add-noqa", "--quiet">>),
        Words(<<"format", "--quiet">>),
        Words(<<"check", "--fix-only", "--select", "RUF100", "--quiet">>),
        Words(<<"check", "--add-noqa", "--quiet">>),
        Words(<<"check", "--exit-zero", "--no-fix", "--output-format=json-lines">>),
        Words(<<"format", "--quiet", "--check">>) >>)

HookFixModeDefaultDefinition == HookModeDefaultDefinition("--fix")

VerifyModeDefaultDefinition ==
    Enumerate(<<
        Words(<<"check", "--no-fix", "--no-cache", "--config", "cache-dir = '/dev/null'">>),
        Words(<<"format", "--check", "--no-cache", "--config", "cache-dir = '/dev/null'">>) >>)

EnrollModeDefaultDefinition ==
    Enumerate(<<
        Words(<<"format">>),
        Words(<<"check", "--fix-only", "--select", "PLR2044", "--quiet">>),
        Words(<<"check", "--add-noqa">>),
        Words(<<"format", "--quiet">>),
        Words(<<"check", "--fix-only", "--select", "RUF100", "--quiet">>),
        Words(<<"check", "--add-noqa", "--quiet">>),
        Words(<<"format", "--quiet">>),
        Words(<<"check", "--add-noqa", "--quiet">>),
        Words(<<"format", "--quiet">>),
        Words(<<"check", "--no-fix", "--quiet">>) >>)

\* self._mode_default_definition_funcs.get(mode, None), then def_func() or {}
ModeDefaultDefinition(mode) ==
    CASE mode = <<"hook">>     -> HookModeDefaultDefinition("--no-fix")
      [] mode = <<"hook-fix">> -> HookFixModeDefaultDefinition
      [] mode = <<"verify">>   -> VerifyModeDefaultDefinition
      [] mode = <<"enroll">>   -> EnrollModeDefaultDefinition
      [] OTHER                 -> <<>>

----------------------------------------------------------------------------
(* The per-directory state the sentinels write, and the handlers.          *)

\* the state a scan starts from after ModeBase._reset / BatchMode._reset: no
\* override, an empty registry, the header not yet seen.  fired is history:
\* the rules whose handlers were called
ResetState ==
    [exec |-> <<>>, modes |-> <<>>, looking |-> TRUE, stopped |-> FALSE, err |-> "none",
     fired |-> <<>>]

\* a bucket entered without self._reset(): override and registry are kept
ResetSkipped(st) == [ResetState EXCEPT !.exec = st.exec, !.modes = st.modes]

\* self._reset() on an object whose fields are st
Reset(st) == ResetState

\* d[key] = value on a dict kept as its items in insertion order
DictSet(items, key, value) ==
    IF \E k \in DOMAIN items : items[k][1] = key
    THEN [k \in DOMAIN items |-> IF items[k][1] = key THEN <<key, value>> ELSE items[k]]
    ELSE Append(items, <<key, value>>)

DefinedModes(st) == DOMAIN st.modes

ModeItems(st, mode) == IF mode \in DOMAIN st.modes THEN st.modes[mode] ELSE <<>>

\* _sentinel_exec: self._exec = match.group("EXEC")
SentinelExec(st, m) == [st EXCEPT !.exec = m.EXEC]

\* an activation that installs nothing for a name without a built-in
SentinelDefaultDefinitionKnownOnly(st, m) ==
    IF ModeDefaultDefinition(m.MODE) = <<>> THEN st
    ELSE [st EXCEPT !.modes = (m.MODE :> ModeDefaultDefinition(m.MODE)) @@ st.modes]

\* an activation that leaves a mode alone once it is in the registry
SentinelDefaultDefinitionKeeps(st, m) ==
    IF m.MODE \in DOMAIN st.modes THEN st
    ELSE [st EXCEPT !.modes = (m.MODE :> ModeDefaultDefinition(m.MODE)) @@ st.modes]

\* _sentinel_default_definition: self._modes[mode] = def_func() if def_func else {}
SentinelDefaultDefinition(st, m) ==
    [st EXCEPT !.modes = (m.MODE :> ModeDefaultDefinition(m.MODE)) @@ st.modes]

\* _sentinel_cmd: idx = int(IDX) raises ValueError on "+"; else
\* self._modes[mode][idx] = shlex.split(ARGS), creating the mode on first use
SentinelCmd(st, m) ==
    IF m.IDX \notin Digits
    THEN [st EXCEPT !.err = "ValueError"]
    ELSE [st EXCEPT !.modes =
            (m.MODE :> DictSet(ModeItems(st, m.MODE), DigitVal(m.IDX), ShlexSplit(m.ARGS)))
            @@ st.modes]

\* the rules of self._sentinels_map, in registration (dict insertion) order
SentinelsMap(batch) ==
    IF batch THEN <<"exec", "default_definition", "cmd">> ELSE <<"exec">>

RuleMatch(rule, line) ==
    CASE rule = "exec"               -> ExecMatch(line)
      [] rule = "default_definition" -> DefaultDefinitionMatch(line)
      [] rule = "cmd"                -> CmdMatch(line)

\* func(match)
RuleHandle(rule, st, m) ==
    LET called == [st EXCEPT !.fired = Append(@, rule)]
    IN CASE rule = "exec"               -> SentinelExec(called, m)
         [] rule = "default_definition" -> SentinelDefaultDefinition(called, m)
         [] rule = "cmd"                -> SentinelCmd(called, m)

\* the loop over the rules without its break: every matching rule is handled
RECURSIVE DispatchAll(_, _, _, _)
DispatchAll(rules, k, st, line) ==
    IF k > Len(rules) \/ st.err # "none" THEN st
    ELSE LET m == RuleMatch(rules[k], line)
         IN DispatchAll(rules, k + 1, IF m.matched THEN RuleHandle(rules[k], st, m) ELSE st,
                        line)

\* for pattern, func in self._sentinels_map.items(): first match, then break
RECURSIVE Dispatch(_, _, _, _)
Dispatch(rules, k, st, line) ==
    IF k > Len(rules) THEN st
    ELSE LET m == RuleMatch(rules[k], line)
         IN IF m.matched THEN RuleHandle(rules[k], st, m)
            ELSE Dispatch(rules, k + 1, st, line)

\* an iteration that does not return at the terminator
ScanLineUnterminated(rules, st, line) ==
    IF st.stopped \/ st.err # "none" THEN st
    ELSE IF st.looking /\ ~(line # <<>> /\ line[1] = HDR) THEN st
    ELSE LET st1 == [st EXCEPT !.looking = FALSE]
         IN IF line = <<>> THEN [st1 EXCEPT !.err = "IndexError"]
            ELSE Dispatch(rules, 1, st1, line)

\* one iteration of the loop over result.stdout.splitlines()
ScanLine(rules, st, line) ==
    IF st.stopped \/ st.err # "none" THEN st
    ELSE IF st.looking /\ ~(line # <<>> /\ line[1] = HDR) THEN st
    ELSE LET st1 == [st EXCEPT !.looking = FALSE]
         IN IF line = <<>> THEN [st1 EXCEPT !.err = "IndexError"]
            ELSE IF Last(line) = RB THEN [st1 EXCEPT !.stopped = TRUE]
            ELSE Dispatch(rules, 1, st1, line)

RECURSIVE ScanFrom(_, _, _, _)
ScanFrom(rules, st, lines, i) ==
    IF i > Len(lines) THEN st
    ELSE ScanFrom(rules, ScanLine(rules, st, lines[i]), lines, i + 1)

\* process_sentinels on the stdout of a successful probe, from state st
ScanDump(batch, st, lines) == ScanFrom(SentinelsMap(batch), st, lines, 1)

----------------------------------------------------------------------------
(* Paths.  A path is the sequence of its components; the relative path "." *)
(* is the empty sequence, and an absolute path lists its components from   *)
(* the filesystem root.                                                    *)

\* self._initwd = os.getcwd(): the invocation root, /r
InitWd == <<"r">>

\* the directories that exist: /, /r, /r/a, /r/a/b
Dirs == {<<>>, <<"r">>, <<"r", "a">>, <<"r", "a", "b">>}

\* os.path.normpath of an absolute path: "." dropped, ".." pops, /.. is /
RECURSIVE NormFrom(_, _, _)
NormFrom(p, i, acc) ==
    IF i > Len(p) THEN acc
    ELSE IF p[i] = "." THEN NormFrom(p, i + 1, acc)
    ELSE IF p[i] = ".." THEN NormFrom(p, i + 1, IF acc = <<>> THEN acc ELSE Front(acc))
    ELSE NormFrom(p, i + 1, Append(acc, p[i]))

\* os.path.abspath(path), the working directory being the invocation root
AbsPath(path) == NormFrom(InitWd \o path, 1, <<>>)

IsDir(path) == AbsPath(path) \in Dirs

DirName(abs) == Front(abs)

BaseName(abs) == Last(abs)

\* the length of the longest common prefix of two absolute paths
RECURSIVE CommonLen(_, _, _)
CommonLen(p, q, i) ==
    IF i <= Len(p) /\ i <= Len(q) /\ p[i] = q[i] THEN CommonLen(p, q, i + 1) ELSE i - 1

\* os.path.relpath(p, start) of absolute paths: one ".." per component of
\* start below the common prefix, then the rest of p; "." when that is empty
RelPath(p, start) ==
    LET c == CommonLen(p, start, 1)
    IN [i \in 1..(Len(start) - c) |-> ".."] \o SubSeq(p, c + 1, Len(p))

\* file_dir.count("/"): one less than the number of components, 0 for "."
Depth(file_dir) == IF file_dir = <<>> THEN 0 ELSE Len(file_dir) - 1

\* a bucket that keeps the last of its files alone
AddFileOverwrites(fbd, depth, file_dir, abspath) ==
    LET inner  == IF \E k \in DOMAIN fbd : fbd[k][1] = depth
                  THEN (CHOOSE k \in DOMAIN fbd : fbd[k][1] = depth)
                  ELSE 0
        dirs   == IF inner = 0 THEN <<>> ELSE fbd[inner][2]
    IN DictSet(fbd, depth, DictSet(dirs, file_dir, {abspath}))

\* files_by_depth[depth][file_dir].add(abspath), both dicts kept as their
\* items in insertion order
AddFile(fbd, depth, file_dir, abspath) ==
    LET inner  == IF \E k \in DOMAIN fbd : fbd[k][1] = depth
                  THEN (CHOOSE k \in DOMAIN fbd : fbd[k][1] = depth)
                  ELSE 0
        dirs   == IF inner = 0 THEN <<>> ELSE fbd[inner][2]
        files  == IF \E k \in DOMAIN dirs : dirs[k][1] = file_dir
                  THEN dirs[CHOOSE k \in DOMAIN dirs : dirs[k][1] = file_dir][2]
                  ELSE {}
    IN DictSet(fbd, depth, DictSet(dirs, file_dir, files \cup {abspath}))

\* BatchMode._get_files_by_depth
RECURSIVE FilesByDepthFrom(_, _, _)
FilesByDepthFrom(paths, i, fbd) ==
    IF i > Len(paths) THEN fbd
    ELSE IF IsDir(paths[i]) THEN FilesByDepthFrom(paths, i + 1, fbd)
    ELSE LET abspath  == AbsPath(paths[i])
             file_dir == RelPath(DirName(abspath), InitWd)
         IN FilesByDepthFrom(paths, i + 1, AddFile(fbd, Depth(file_dir), file_dir, abspath))

GetFilesByDepth(paths) == FilesByDepthFrom(paths, 1, <<>>)

\* insert an item into a list of items sorted by descending key
RECURSIVE InsertDesc(_, _)
InsertDesc(sorted, item) ==
    IF sorted = <<>> THEN <<item>>
    ELSE IF item[1] > Head(sorted)[1] THEN <<item>> \o sorted
    ELSE <<Head(sorted)>> \o InsertDesc(Tail(sorted), item)

RECURSIVE SortDesc(_)
SortDesc(items) ==
    IF items = <<>> THEN <<>> ELSE InsertDesc(SortDesc(Front(items)), Last(items))

RECURSIVE InsertAsc(_, _)
InsertAsc(sorted, item) ==
    IF sorted = <<>> THEN <<item>>
    ELSE IF item[1] < Head(sorted)[1] THEN <<item>> \o sorted
    ELSE <<Head(sorted)>> \o InsertAsc(Tail(sorted), item)

RECURSIVE SortAsc(_)
SortAsc(items) ==
    IF items = <<>> THEN <<>> ELSE InsertAsc(SortAsc(Front(items)), Last(items))

RECURSIVE Flatten(_)
Flatten(byDepth) ==
    IF byDepth = <<>> THEN <<>> ELSE Head(byDepth)[2] \o Flatten(Tail(byDepth))

\* the order of the two nested loops of run: sorted(...items(), reverse=True),
\* then each depth's directories in insertion order; a bucket is <<dir, files>>
BucketOrder(fbd) == Flatten(SortDesc(fbd))

\* the items of a mode in declaration order, as a loop without sorted() would
ItemsAsDeclared(items) == items

\* for _, cmd in sorted(mode.items())
SortedItems(items) == SortAsc(items)

DashDash == <<"--">>

\* BatchMode._get_paths_from_args: <<paths_are_good, paths>>

\* a delimiter that is honoured wherever it stands
PathsFromArgsLax(args) ==
    LET at == {i \in DOMAIN args : args[i] = DashDash}
    IN IF at = {} THEN <<TRUE, args>>
       ELSE <<TRUE, SubSeq(args, Min(at) + 1, Len(args))>>

PathsFromArgs(args) ==
    LET at == {i \in DOMAIN args : args[i] = DashDash}
    IN IF at = {} THEN <<TRUE, args>>
       ELSE IF Min(at) > 1 THEN <<FALSE, SubSeq(args, 1, Min(at) - 1)>>
       ELSE <<TRUE, SubSeq(args, 2, Len(args))>>

----------------------------------------------------------------------------
(* Executable resolution: the first lines of ModeBase.ruff.  The           *)
(* environment is [RUFFWRAP_EXEC: a str, or PyNone when unset, PATH: the subset of      *)
(* {"ruff", "uvx"} that shutil.which finds].                               *)

PyNone == <<"<None>">>

NotFound == <<"<FileNotFoundError>">>

WhichRuff == <<"/usr/bin/ruff">>

WhichUvx == <<"/usr/bin/uvx">>

\* a resolution that does not look at the skip flag
ResolveExecIgnoresSkip(skipped, override, environ) ==
    IF override # <<>> THEN override
    ELSE IF "ruff" \in environ.PATH THEN WhichRuff
    ELSE IF "uvx" \in environ.PATH THEN WhichUvx \o <<SP, "ruff">>
    ELSE NotFound

\* the str that ruff() goes on to tokenize, or NotFound where it raises
ResolveExec(skipped, override, environ) ==
    LET first == IF skipped THEN environ.RUFFWRAP_EXEC
                 ELSE IF override # <<>> THEN override ELSE PyNone
    IN IF first # PyNone THEN first
       ELSE IF "ruff" \in environ.PATH THEN WhichRuff
       ELSE IF "uvx" \in environ.PATH THEN WhichUvx \o <<SP, "ruff">>
       ELSE NotFound

\* cmd_ary = [*shlex.split(exec), *cmdargs]
CmdAry(exec_str, cmdargs) == ShlexSplit(exec_str) \o cmdargs

----------------------------------------------------------------------------
(* The wrapped tool's settings dumps (stdout of the probe), line by line.  *)

Entry(atoms) == <<TAB>> \o atoms \o <<COMMA>>

ExecLine(value) == Entry(<<EXEC_LIT>> \o value)

DefLine(mode) == Entry(<<MODE_LIT, mode, DEF_LIT>>)

CmdLine(mode, idx, cmdline) == Entry(<<MODE_LIT, mode, CMD_LIT, idx, UU>> \o cmdline)

Preamble == << <<"# Linter Settings">>, <<"linter.exclude = [", RB>> >>

Epilogue == << <<RB>>, <<"linter.allowed_confusables = [", RB>> >>

\* no linter.builtins block at all
DumpNoHeader == Preamble \o << ExecLine(<<"/opt/ruff">>), CmdLine("m", "0", <<"check">>) >>

\* mode m declared with indices 0, 5, 2, in that order
DumpUserMode ==
    Preamble \o << <<HDR>>,
                   CmdLine("m", "0", <<"check">>),
                   CmdLine("m", "5", <<"format", SP, "--check">>),
                   CmdLine("m", "2", <<"check", SP, "--fix">>) >> \o Epilogue

\* an executable override, and mode m declared with indices 7, 1
DumpOverride ==
    Preamble \o << <<HDR>>,
                   Entry(<<"E501">>),
                   CmdLine("m", "7", <<"format">>),
                   ExecLine(<<"/opt/ruff">>),
                   CmdLine("m", "1", <<"check">>) >> \o Epilogue

\* other modes defined, m not; an override that is a launcher with arguments
DumpOtherModes ==
    Preamble \o << <<HDR>>,
                   ExecLine(<<"uvx", SP, "ruff">>),
                   DefLine("verify"),
                   CmdLine("n", "3", <<"format">>) >> \o Epilogue

\* the standard definition of m activated: m is no built-in
DumpEmptyMode == Preamble \o << <<HDR>>, DefLine("m") >> \o Epilogue

\* the same block without a sentinel
DumpNoSentinels == Preamble \o << <<HDR>> >> \o Epilogue

\* an empty builtins list: header and terminator on one line
DumpEmptyList ==
    Preamble \o << <<HDR, RB>>, CmdLine("m", "0", <<"check">>) >> \o Epilogue

\* a blank line inside the block
DumpBlankLine == Preamble \o << <<HDR>>, <<>>, CmdLine("m", "0", <<"check">>) >> \o Epilogue

\* an index written with a sign
DumpPlusIndex == Preamble \o << <<HDR>>, CmdLine("m", "+", <<"check">>) >> \o Epilogue

Dumps ==
    {DumpNoHeader, DumpUserMode, DumpOverride, DumpOtherModes, DumpEmptyMode, DumpNoSentinels,
     DumpEmptyList, DumpBlankLine, DumpPlusIndex}

----------------------------------------------------------------------------
(* Bounds and inputs *)

\* the longest passthrough argument list
MaxArgs == 3

\* passthrough tokens: the delimiter, files at three depths, and a directory
ArgTokens ==
    {DashDash, <<"x.py">>, <<"a", "y.py">>, <<"a", "b", "z.py">>, <<"a">>}

\* the lists of at most n tokens in which no path is given twice
RECURSIVE SeqsUpTo(_, _)
SeqsUpTo(S, n) ==
    IF n = 0 THEN {<<>>}
    ELSE LET shorter == SeqsUpTo(S, n - 1)
         IN shorter \cup
            {Append(qx[1], qx[2]) :
               qx \in {rx \in {r \in shorter : Len(r) = n - 1} \X S :
                         rx[2] = DashDash \/ \A k \in 1..(n - 1) : rx[1][k] # rx[2]}}

ArgLists == SeqsUpTo(ArgTokens, MaxArgs)

\* the longest list of paths handed to _get_files_by_depth on its own
MaxPaths == 3

\* the paths of such a list: two files of the root, one of them spelled a
\* second way, files one and two levels down, a file above the root, and a
\* directory
PathTokens ==
    {<<"x.py">>, <<"w.py">>, <<"a", "..", "x.py">>, <<"a", "y.py">>, <<"a", "b", "z.py">>,
     <<"..", "v.py">>, <<"a">>}

PathLists == SeqsUpTo(PathTokens, MaxPaths)

\* the longest dump the scanner is stepped through line by line
MaxLines == 3

\* lines of a dump: the header, an empty list, a terminator (of this or of
\* another block), a blank line, an unrelated entry, two overrides, the
\* activations of a mode without and of one with a built-in, indexed commands
\* with the indices 5 (twice, with different arguments), 10 and +, one that
\* replaces index 1 of the built-in, a line that all three patterns match,
\* and one that the two mode patterns match
DumpLines ==
    {<<HDR>>, <<HDR, RB>>, <<RB>>, <<>>, Entry(<<"E501">>),
     ExecLine(<<"uvx", SP, "ruff">>), ExecLine(<<"/opt/ruff">>),
     DefLine("m"), DefLine("verify"),
     CmdLine("m", "5", <<"format", SP, "--check">>), CmdLine("m", "5", <<"check">>),
     CmdLine("verify", "1", <<"check">>),
     Entry(<<MODE_LIT, "m", CMD_LIT, "1", "0", UU, "check">>),
     CmdLine("m", "+", <<"check">>),
     Entry(<<EXEC_LIT, MODE_LIT, "m", CMD_LIT, "0", UU, MODE_LIT, "n", DEF_LIT>>),
     Entry(<<MODE_LIT, "m", CMD_LIT, "0", UU, MODE_LIT, "n", DEF_LIT>>)}

\* the dumps of at most n lines
RECURSIVE LinesUpTo(_)
LinesUpTo(n) ==
    IF n = 0 THEN {<<>>}
    ELSE LET shorter == LinesUpTo(n - 1)
         IN shorter \cup
            {Append(dl[1], dl[2]) : dl \in {d \in shorter : Len(d) = n - 1} \X DumpLines}

ScanDumps == LinesUpTo(MaxLines)

\* RUFFWRAP_SKIP: unset, or set to a non-empty value
SkipValues == {PyNone, <<"0">>, <<"1">>}

\* args.mode: PyNone selects single mode
ArgModes == {PyNone, <<"m">>}

Environs ==
    [RUFFWRAP_EXEC : {PyNone, <<"/env/ruff">>},
     PATH : {{"ruff"}, {"uvx"}, {}}]

\* exit statuses of a child: success, a failure, and death by signal 9
ExitCodes == {0, 2, -9}

\* the fixed arguments of the settings probe and of the file listing
ProbeArgs ==
    Words(<<"check", "--show-settings", "--config", "include = [ '*', '.*' ]",
            "--config", "exclude = [ '*/*' ]", "--config", "cache-dir = '/dev/null'",
            "--no-cache">>)

ListArgs == Words(<<"check", "--show-files">>)

----------------------------------------------------------------------------
(* State *)

VARIABLES
    skip,          \* self._skip: the value of RUFFWRAP_SKIP, PyNone when unset
    argmode,       \* self._args.mode
    mode_require,  \* self._args.mode_require
    args,          \* the passthrough arguments
    environ,       \* RUFFWRAP_EXEC and what is on PATH
    pc,            \* where the run is
    exec,          \* self._exec
    modes,         \* self._modes
    cwd,           \* the working directory
    returncode,    \* the local of BatchMode.run
    queue,         \* the buckets the loops of run have still to visit
    abs_paths,     \* the files of the bucket being processed
    paths,         \* the filtered file names of the bucket being processed
    todo,          \* the commands of the sequence still to run, as items
    result,        \* the value run returned, once pc = "done"
    exc,           \* the exception that left run, once pc = "raised"
    diag,          \* the kinds of message run wrote to stderr
    visited,       \* history: the directories of the buckets entered, in order
    bucketrec,     \* history: the codes handed to max() for the current bucket
    recmax,        \* history: the greatest code handed to max() so far, if any
    calls,         \* history: the child invocations of the current bucket
    stdout,        \* result.stdout.splitlines() of the last successful probe
    stderr,        \* e.stderr of the bucket's probe, empty unless it exited non-zero
    show_files,    \* history: the lines the bucket's listing printed
    files_by_depth,\* the local of _get_files_by_depth
    pathno,        \* the number of paths the loop of _get_files_by_depth has taken
    lineno,        \* the number of lines the loop of process_sentinels has taken
    looking,       \* looking_for_sentinel_header
    fired,         \* history: per line taken, the handlers that were called
    touched        \* history: the lines whose iteration changed _exec or _modes

vars ==
    <<skip, argmode, mode_require, args, environ, pc, exec, modes, cwd, returncode,
      queue, abs_paths, paths, show_files, todo, result, exc, diag, visited, bucketrec, recmax,
      calls, stdout, stderr, show_files, files_by_depth, pathno, lineno, looking,
      fired, touched>>

inputs == <<skip, argmode, mode_require, args, environ>>

\* the locals of the loop of process_sentinels, and its history
scanner == <<lineno, looking, fired, touched>>

\* the locals of the loop of _get_files_by_depth
grouper == <<files_by_depth, pathno>>

\* the truth value Python gives an optional str: None and "" are false
Truthy(v) == v # PyNone /\ v # <<>>

Skipped == Truthy(skip)

\* a run that does not look at the skip flag
BatchBypassNever(flag) == FALSE

\* if self._skip: return 0
BatchBypass(flag) == Truthy(flag)

Call(kind, dir, exec_str, cmdargs, files, idx, rc) ==
    [kind |-> kind, cwd |-> dir, argv |-> CmdAry(exec_str, cmdargs), files |-> files,
     idx |-> idx, rc |-> rc]

Init ==
    /\ skip \in SkipValues
    /\ argmode \in ArgModes
    /\ mode_require \in BOOLEAN
    /\ argmode = PyNone => ~mode_require
    /\ args \in ArgLists
    /\ environ \in Environs
    /\ pc = "start"
    /\ exec = <<>>
    /\ modes = <<>>
    /\ cwd = InitWd
    /\ returncode = 0
    /\ queue = <<>>
    /\ abs_paths = {}
    /\ paths = {}
    /\ todo = <<>>
    /\ result = 0
    /\ exc = "none"
    /\ diag = {}
    /\ visited = <<>>
    /\ bucketrec = <<>>
    /\ recmax = <<>>
    /\ calls = <<>>
    /\ stdout = <<>>
    /\ stderr = <<>>
    /\ show_files = {}
    /\ files_by_depth = <<>>
    /\ pathno = 0
    /\ lineno = 0
    /\ looking = TRUE
    /\ fired = <<>>
    /\ touched = {}

----------------------------------------------------------------------------
(* BatchMode.run *)

\* if self._skip: return 0
BatchSkip ==
    /\ pc = "start" /\ argmode # PyNone /\ BatchBypass(skip)
    /\ pc' = "done"
    /\ result' = 0
    /\ UNCHANGED <<inputs, scanner, grouper, stdout, stderr, exec, modes, cwd, returncode, queue, abs_paths, paths, show_files, todo,
                   exc, diag, visited, bucketrec, recmax, calls>>

\* if not paths_are_good: print ...; return 3
BatchBadArgs ==
    /\ pc = "start" /\ argmode # PyNone /\ ~BatchBypass(skip)
    /\ ~PathsFromArgs(args)[1]
    /\ diag' = diag \cup {"bad-args"}
    /\ pc' = "done"
    /\ result' = 3
    /\ UNCHANGED <<inputs, scanner, grouper, stdout, stderr, exec, modes, cwd, returncode, queue, abs_paths, paths, show_files, todo,
                   exc, visited, bucketrec, recmax, calls>>

\* returncode = 0, and the iterables of the two loops
BatchBegin ==
    /\ pc = "start" /\ argmode # PyNone /\ ~BatchBypass(skip)
    /\ PathsFromArgs(args)[1]
    /\ queue' = BucketOrder(GetFilesByDepth(PathsFromArgs(args)[2]))
    /\ returncode' = 0
    /\ pc' = "next"
    /\ UNCHANGED <<inputs, scanner, grouper, stdout, stderr, exec, modes, cwd, abs_paths, paths, show_files, todo, result, exc, diag,
                   visited, bucketrec, recmax, calls>>

\* the loops are exhausted: return returncode
BatchReturn ==
    /\ pc = "next" /\ queue = <<>>
    /\ pc' = "done"
    /\ result' = returncode
    /\ UNCHANGED <<inputs, scanner, grouper, stdout, stderr, exec, modes, cwd, returncode, queue, abs_paths, paths, show_files, todo,
                   exc, diag, visited, bucketrec, recmax, calls>>

\* a loop that never leaves the directory it was started in
BucketDirStays(dir_path) == InitWd

\* abs_dir_path = f"{self._initwd}/{dir_path}", as os.chdir resolves it
BucketDir(dir_path) == NormFrom(InitWd \o dir_path, 1, <<>>)

\* os.chdir(abs_dir_path); self._reset(): the head of every probe step
EnterBucket ==
    /\ pc = "next" /\ queue # <<>>
    /\ cwd' = BucketDir(Head(queue)[1])
    /\ abs_paths' = Head(queue)[2]
    /\ queue' = Tail(queue)
    /\ visited' = Append(visited, Head(queue)[1])
    /\ paths' = {}
    /\ show_files' = {}
    /\ todo' = <<>>
    /\ UNCHANGED <<inputs, scanner, grouper, result>>

\* an undefined mode that is never a failure
UndefinedRecordNever(required) == <<>>

\* an undefined mode that is a failure whatever the flag
UndefinedRecordAlways(required) == <<1>>

\* the code recorded for a bucket whose registry lacks the requested mode:
\* returncode = max(1, returncode) under mode_require, nothing otherwise
UndefinedRecord(required) == IF required THEN <<1>> ELSE <<>>

\* returncode = max(code, returncode) for each recorded code
RECURSIVE Aggregate(_, _)
Aggregate(codes, rc) ==
    IF codes = <<>> THEN rc ELSE Aggregate(Tail(codes), Max(Head(codes), rc))

\* the greatest of the codes seen so far and the codes of one more bucket
Greatest(seen, codes) ==
    LET all == {seen[k] : k \in DOMAIN seen} \cup {codes[k] : k \in DOMAIN codes}
    IN IF all = {} THEN <<>> ELSE <<CHOOSE x \in all : \A y \in all : y <= x>>

\* the fields of the object, as the state a scan works on
Current == [ResetState EXCEPT !.exec = exec, !.modes = modes]

\* process_sentinels returned with state st: the mode check of run
AfterSentinels(st) ==
    /\ exec' = st.exec
    /\ modes' = st.modes
    /\ exc' = exc
    /\ IF argmode \notin DOMAIN st.modes
       THEN /\ bucketrec' = UndefinedRecord(mode_require)
            /\ returncode' = Aggregate(bucketrec', returncode)
            /\ recmax' = Greatest(recmax, bucketrec')
            /\ diag' = IF mode_require THEN diag \cup {"mode-undefined"} ELSE diag
            /\ pc' = "next"
       ELSE /\ bucketrec' = <<>>
            /\ UNCHANGED <<returncode, recmax, diag>>
            /\ pc' = "list"

\* the sentence the tool writes when no file is in scope
NO_FILES == "No files found under the given path"

\* what a probe that exits non-zero may have written to its stderr: nothing,
\* another diagnostic, or a diagnostic with the sentence in it
ProbeStderrs ==
    {<<>>, <<"error: ", "Failed to parse pyproject.toml">>, <<"warning: ", NO_FILES>>}

\* a handler that takes every failure of the probe for an empty scope
NoFilesReportedAlways(text) == TRUE

\* a handler that takes no failure of the probe for an empty scope
NoFilesReportedNever(text) == FALSE

\* "No files found under the given path" in e.stderr
NoFilesReported(text) == \E k \in DOMAIN text : text[k] = NO_FILES

\* self.ruff(...) raises FileNotFoundError inside process_sentinels
ProbeNotFound ==
    /\ EnterBucket
    /\ ResolveExec(Skipped, Reset(Current).exec, environ) = NotFound
    /\ exec' = Reset(Current).exec /\ modes' = Reset(Current).modes
    /\ stdout' = <<>>
    /\ stderr' = <<>>
    /\ calls' = <<>>
    /\ bucketrec' = <<>>
    /\ exc' = "FileNotFoundError"
    /\ pc' = "raised"
    /\ UNCHANGED <<returncode, recmax, diag>>

\* the probe exits non-zero without "No files found": print(e.stderr); raise
ProbeFails ==
    /\ EnterBucket
    /\ ResolveExec(Skipped, Reset(Current).exec, environ) # NotFound
    /\ \E rc \in ExitCodes \ {0} :
         calls' = <<Call("probe", cwd', ResolveExec(Skipped, Reset(Current).exec, environ),
                         ProbeArgs, {}, 0, rc)>>
    /\ \E e \in ProbeStderrs : ~NoFilesReported(e) /\ stderr' = e
    /\ exec' = Reset(Current).exec /\ modes' = Reset(Current).modes
    /\ stdout' = <<>>
    /\ bucketrec' = <<>>
    /\ diag' = diag \cup {"probe-stderr"}
    /\ exc' = "CalledProcessError"
    /\ pc' = "raised"
    /\ UNCHANGED <<returncode, recmax>>

\* the probe exits non-zero with "No files found under the given path"
ProbeNoFiles ==
    /\ EnterBucket
    /\ ResolveExec(Skipped, Reset(Current).exec, environ) # NotFound
    /\ \E rc \in ExitCodes \ {0} :
         calls' = <<Call("probe", cwd', ResolveExec(Skipped, Reset(Current).exec, environ),
                         ProbeArgs, {}, 0, rc)>>
    /\ \E e \in ProbeStderrs : NoFilesReported(e) /\ stderr' = e
    /\ stdout' = <<>>
    /\ AfterSentinels(Reset(Current))

\* the probe succeeds and its stdout is scanned
ProbeScans ==
    /\ EnterBucket
    /\ ResolveExec(Skipped, Reset(Current).exec, environ) # NotFound
    /\ calls' = <<Call("probe", cwd', ResolveExec(Skipped, Reset(Current).exec, environ),
                        ProbeArgs, {}, 0, 0)>>
    /\ \E dump \in Dumps :
         LET st == ScanDump(TRUE, Reset(Current), dump)
         IN /\ stdout' = dump
            /\ stderr' = <<>>
            /\ IF st.err = "none"
               THEN AfterSentinels(st)
               ELSE /\ exec' = st.exec /\ modes' = st.modes
                    /\ bucketrec' = <<>>
                    /\ exc' = st.err
                    /\ pc' = "raised"
                    /\ UNCHANGED <<returncode, recmax, diag>>

\* a list of names taken from every line of the listing
Unfiltered(listing, bucket_files) == {BaseName(f) : f \in listing}

\* the file names handed to the sequence: os.path.basename(file) for the
\* lines of the listing that are in abs_paths
Filtered(listing, bucket_files) == {BaseName(f) : f \in listing \cap bucket_files}

\* what `check --show-files` may print in the working directory: any of the
\* bucket's files, and the file of the directory that was not passed
Listings == {found \cup {Append(cwd, "other.py")} : found \in SUBSET abs_paths}

\* the listing exits non-zero: check_output raises CalledProcessError, which
\* no handler of run catches
ListFails ==
    /\ pc = "list"
    /\ ResolveExec(Skipped, exec, environ) # NotFound
    /\ \E rc \in ExitCodes \ {0} :
         calls' = Append(calls, Call("list", cwd, ResolveExec(Skipped, exec, environ), ListArgs, {}, 0, rc))
    /\ exc' = "CalledProcessError"
    /\ pc' = "raised"
    /\ UNCHANGED <<inputs, scanner, grouper, stdout, stderr, exec, modes, cwd, returncode, queue, abs_paths, paths, show_files, todo,
                   result, diag, visited, bucketrec, recmax>>

\* the override names nothing that can be executed: check_output raises OSError
ListOSError ==
    /\ pc = "list"
    /\ exec # <<>>
    /\ calls' = Append(calls, Call("list", cwd, ResolveExec(Skipped, exec, environ), ListArgs, {}, 0, 127))
    /\ exc' = "OSError"
    /\ pc' = "raised"
    /\ UNCHANGED <<inputs, scanner, grouper, stdout, stderr, exec, modes, cwd, returncode, queue, abs_paths, paths, show_files, todo,
                   result, diag, visited, bucketrec, recmax>>

\* the listing succeeds: filter, then `if not paths: continue`, then the
\* sequence in the order of its loop
ListOk ==
    /\ pc = "list"
    /\ ResolveExec(Skipped, exec, environ) # NotFound
    /\ calls' = Append(calls, Call("list", cwd, ResolveExec(Skipped, exec, environ), ListArgs, {}, 0, 0))
    /\ \E listing \in Listings :
         /\ show_files' = listing
         /\ paths' = Filtered(listing, abs_paths)
         /\ IF paths' = {}
            THEN todo' = <<>>
            ELSE todo' = SortedItems(modes[argmode])
    /\ pc' = IF todo' = <<>> THEN "next" ELSE "seq"
    /\ UNCHANGED <<inputs, scanner, grouper, stdout, stderr, exec, modes, cwd, returncode, queue, abs_paths, result, exc,
                   diag, visited, bucketrec, recmax>>

\* a loop that went on after a failed step, as subprocess.call would
RaisesNever(rc) == FALSE

\* subprocess.check_call raises CalledProcessError on a non-zero exit status
Raises(rc) == rc # 0

\* one subprocess.check_call(self.ruff(*cmd, *paths)) of the sequence, with
\* the handler of CalledProcessError and the `continue` behind it
RunCmd ==
    /\ pc = "seq" /\ todo # <<>>
    /\ \E rc \in ExitCodes :
         /\ calls' = Append(calls, Call("cmd", cwd, ResolveExec(Skipped, exec, environ),
                                        Head(todo)[2], paths, Head(todo)[1], rc))
         /\ IF Raises(rc)
            THEN /\ diag' = diag \cup {"cmd-failed"}
                 /\ bucketrec' = <<rc>>
                 /\ returncode' = Aggregate(bucketrec', returncode)
                 /\ recmax' = Greatest(recmax, bucketrec')
                 /\ todo' = todo
                 /\ pc' = "next"
            ELSE /\ todo' = Tail(todo)
                 /\ pc' = IF todo' = <<>> THEN "next" ELSE "seq"
                 /\ UNCHANGED <<diag, bucketrec, recmax, returncode>>
    /\ UNCHANGED <<inputs, scanner, grouper, stdout, stderr, exec, modes, cwd, queue, abs_paths, paths, show_files,
                   result, exc, visited>>

----------------------------------------------------------------------------
(* SingleMode.run *)

SingleFrame == UNCHANGED <<inputs, scanner, grouper, cwd, returncode, queue, abs_paths, paths, show_files, todo,
                           visited, bucketrec, recmax, modes>>

\* if not self._skip: no probe under the skip flag
SingleSkip ==
    /\ pc = "start" /\ argmode = PyNone /\ Skipped
    /\ pc' = "exec"
    /\ UNCHANGED <<exec, result, exc, diag, calls, stdout, stderr>>
    /\ SingleFrame

\* self.ruff(...) raises FileNotFoundError inside process_sentinels, outside
\* the try of run
SingleProbeNotFound ==
    /\ pc = "start" /\ argmode = PyNone /\ ~Skipped
    /\ ResolveExec(Skipped, exec, environ) = NotFound
    /\ exc' = "FileNotFoundError"
    /\ pc' = "raised"
    /\ UNCHANGED <<exec, result, diag, calls, stdout, stderr>>
    /\ SingleFrame

SingleProbeFails ==
    /\ pc = "start" /\ argmode = PyNone /\ ~Skipped
    /\ ResolveExec(Skipped, exec, environ) # NotFound
    /\ \E rc \in ExitCodes \ {0} :
         calls' = <<Call("probe", cwd, ResolveExec(Skipped, exec, environ), ProbeArgs, {}, 0, rc)>>
    /\ \E e \in ProbeStderrs : ~NoFilesReported(e) /\ stderr' = e
    /\ diag' = diag \cup {"probe-stderr"}
    /\ exc' = "CalledProcessError"
    /\ pc' = "raised"
    /\ UNCHANGED <<exec, result, stdout>>
    /\ SingleFrame

SingleProbeNoFiles ==
    /\ pc = "start" /\ argmode = PyNone /\ ~Skipped
    /\ ResolveExec(Skipped, exec, environ) # NotFound
    /\ \E rc \in ExitCodes \ {0} :
         calls' = <<Call("probe", cwd, ResolveExec(Skipped, exec, environ), ProbeArgs, {}, 0, rc)>>
    /\ \E e \in ProbeStderrs : NoFilesReported(e) /\ stderr' = e
    /\ pc' = "exec"
    /\ UNCHANGED <<exec, result, exc, diag, stdout>>
    /\ SingleFrame

\* the probe succeeds; single mode registers the executable rule alone
SingleProbeScans ==
    /\ pc = "start" /\ argmode = PyNone /\ ~Skipped
    /\ ResolveExec(Skipped, exec, environ) # NotFound
    /\ calls' = <<Call("probe", cwd, ResolveExec(Skipped, exec, environ), ProbeArgs, {}, 0, 0)>>
    /\ \E dump \in Dumps :
         LET st == ScanDump(FALSE, Current, dump)
         IN /\ stdout' = dump
            /\ exec' = st.exec
            /\ exc' = IF st.err = "none" THEN exc ELSE st.err
            /\ pc' = IF st.err = "none" THEN "exec" ELSE "raised"
    /\ UNCHANGED <<result, diag, stderr>>
    /\ SingleFrame

\* self.ruff(*passthrough_args) raises FileNotFoundError, an OSError: the
\* handler formats execargs, which was never bound
SingleExecNotFound ==
    /\ pc = "exec"
    /\ ResolveExec(Skipped, exec, environ) = NotFound
    /\ exc' = "UnboundLocalError"
    /\ pc' = "raised"
    /\ UNCHANGED <<exec, result, diag, calls, stdout, stderr>>
    /\ SingleFrame

\* os.execvp replaces the process
SingleExecReplaces ==
    /\ pc = "exec"
    /\ ResolveExec(Skipped, exec, environ) # NotFound
    /\ CmdAry(ResolveExec(Skipped, exec, environ), args) # <<>>
    /\ calls' = Append(calls, Call("exec", cwd, ResolveExec(Skipped, exec, environ), args, {}, 0, 0))
    /\ pc' = "replaced"
    /\ UNCHANGED <<exec, result, exc, diag, stdout, stderr>>
    /\ SingleFrame

\* what os.execvp raises when it cannot replace the process: the file is
\* missing, may not be executed, or another error of the system call
ExecvpErrors == {"FileNotFoundError", "PermissionError", "OSError"}

\* a handler for the missing file alone
IsFileNotFoundError(e) == e = "FileNotFoundError"

\* except OSError: the class and its subclasses
IsOSError(e) == e \in {"OSError", "FileNotFoundError", "PermissionError"}

\* os.execvp raises: print the message, return 200.  What
\* shutil.which found can be executed, so this needs a configured executable
SingleExecFails ==
    /\ pc = "exec"
    /\ ResolveExec(Skipped, exec, environ) # NotFound
    /\ CmdAry(ResolveExec(Skipped, exec, environ), args) # <<>>
    /\ IF Skipped THEN environ.RUFFWRAP_EXEC # PyNone ELSE exec # <<>>
    /\ calls' = Append(calls, Call("exec", cwd, ResolveExec(Skipped, exec, environ), args, {}, 0, 127))
    /\ \E e \in ExecvpErrors :
         IF IsOSError(e)
         THEN /\ diag' = diag \cup {"exec-error"}
              /\ result' = 200
              /\ pc' = "done"
              /\ exc' = exc
         ELSE /\ exc' = e
              /\ pc' = "raised"
              /\ UNCHANGED <<diag, result>>
    /\ UNCHANGED <<exec, stdout, stderr>>
    /\ SingleFrame

----------------------------------------------------------------------------
(* The loop of process_sentinels, one line of the dump at a step.          *)

ScanFrame ==
    UNCHANGED <<inputs, grouper, stdout, stderr, cwd, returncode, queue, abs_paths, paths, show_files, todo,
                result, diag, visited, bucketrec, recmax, calls>>

\* the dump is any text; the object is fresh from __init__
ScanInit ==
    /\ skip = PyNone
    /\ argmode \in ArgModes
    /\ mode_require = FALSE
    /\ args = <<>>
    /\ environ = [RUFFWRAP_EXEC |-> PyNone, PATH |-> {"ruff"}]
    /\ pc = "scan"
    /\ exec = <<>>
    /\ modes = <<>>
    /\ cwd = InitWd
    /\ returncode = 0
    /\ queue = <<>>
    /\ abs_paths = {}
    /\ paths = {}
    /\ todo = <<>>
    /\ result = 0
    /\ exc = "none"
    /\ diag = {}
    /\ visited = <<>>
    /\ bucketrec = <<>>
    /\ recmax = <<>>
    /\ calls = <<>>
    /\ stdout \in ScanDumps
    /\ stderr = <<>>
    /\ show_files = {}
    /\ files_by_depth = <<>>
    /\ pathno = 0
    /\ lineno = 0
    /\ looking = TRUE
    /\ fired = <<>>
    /\ touched = {}

\* the state the next iteration of the loop leaves
Iteration ==
    ScanLine(SentinelsMap(argmode # PyNone), [Current EXCEPT !.looking = looking],
             stdout[lineno + 1])

\* the iteration's writes to the object and to the locals of the loop
Iterate ==
    /\ lineno' = lineno + 1
    /\ looking' = Iteration.looking
    /\ exec' = Iteration.exec
    /\ modes' = Iteration.modes
    /\ fired' = Append(fired, Iteration.fired)
    /\ touched' = IF Iteration.exec # exec \/ Iteration.modes # modes
                  THEN touched \cup {lineno + 1} ELSE touched
    /\ exc' = Iteration.err
    /\ ScanFrame

\* an iteration that ends by continue, by break or by falling off the rules
ScanContinue ==
    /\ pc = "scan" /\ lineno < Len(stdout)
    /\ Iteration.err = "none" /\ ~Iteration.stopped
    /\ Iterate
    /\ pc' = "scan"

\* if line[-1] == "]": return
ScanTerminator ==
    /\ pc = "scan" /\ lineno < Len(stdout)
    /\ Iteration.err = "none" /\ Iteration.stopped
    /\ Iterate
    /\ pc' = "returned"

\* the iteration raises: line[-1] of an empty line, int() of a sign
ScanRaises ==
    /\ pc = "scan" /\ lineno < Len(stdout)
    /\ Iteration.err # "none"
    /\ Iterate
    /\ pc' = "raised"

\* the lines are exhausted: the method returns
ScanExhausted ==
    /\ pc = "scan" /\ lineno = Len(stdout)
    /\ pc' = "returned"
    /\ UNCHANGED <<exec, modes, exc, scanner>>
    /\ ScanFrame

ScanNext ==
    \/ ScanContinue
    \/ ScanTerminator
    \/ ScanRaises
    \/ ScanExhausted

ScanSpec == ScanInit /\ [][ScanNext]_vars

----------------------------------------------------------------------------
(* The loop of _get_files_by_depth, one path at a step; args is its paths. *)

GroupFrame ==
    UNCHANGED <<inputs, scanner, stdout, stderr, cwd, returncode, queue, abs_paths, paths,
                show_files, todo, result, diag, visited, bucketrec, recmax, calls, exec,
                modes, exc>>

\* the paths are any list; files_by_depth = {}
GroupInit ==
    /\ skip = PyNone
    /\ argmode \in ArgModes \ {PyNone}
    /\ mode_require = FALSE
    /\ args \in PathLists
    /\ environ = [RUFFWRAP_EXEC |-> PyNone, PATH |-> {"ruff"}]
    /\ pc = "group"
    /\ exec = <<>>
    /\ modes = <<>>
    /\ cwd = InitWd
    /\ returncode = 0
    /\ queue = <<>>
    /\ abs_paths = {}
    /\ paths = {}
    /\ todo = <<>>
    /\ result = 0
    /\ exc = "none"
    /\ diag = {}
    /\ visited = <<>>
    /\ bucketrec = <<>>
    /\ recmax = <<>>
    /\ calls = <<>>
    /\ stdout = <<>>
    /\ stderr = <<>>
    /\ show_files = {}
    /\ files_by_depth = <<>>
    /\ pathno = 0
    /\ lineno = 0
    /\ looking = TRUE
    /\ fired = <<>>
    /\ touched = {}

\* if os.path.isdir(path): continue
GroupSkipsDir ==
    /\ pc = "group" /\ pathno < Len(args)
    /\ IsDir(args[pathno + 1])
    /\ pathno' = pathno + 1
    /\ UNCHANGED <<files_by_depth, pc>>
    /\ GroupFrame

\* the rest of the loop body, for a path that is not a directory
GroupAdds ==
    /\ pc = "group" /\ pathno < Len(args)
    /\ ~IsDir(args[pathno + 1])
    /\ files_by_depth' = FilesByDepthFrom(<<args[pathno + 1]>>, 1, files_by_depth)
    /\ pathno' = pathno + 1
    /\ UNCHANGED pc
    /\ GroupFrame

\* return files_by_depth
GroupReturns ==
    /\ pc = "group" /\ pathno = Len(args)
    /\ pc' = "returned"
    /\ UNCHANGED grouper
    /\ GroupFrame

GroupNext ==
    \/ GroupSkipsDir
    \/ GroupAdds
    \/ GroupReturns

GroupSpec == GroupInit /\ [][GroupNext]_vars

----------------------------------------------------------------------------

Next ==
    \/ BatchSkip
    \/ BatchBadArgs
    \/ BatchBegin
    \/ BatchReturn
    \/ ProbeNotFound
    \/ ProbeFails
    \/ ProbeNoFiles
    \/ ProbeScans
    \/ ListFails
    \/ ListOSError
    \/ ListOk
    \/ RunCmd
    \/ SingleSkip
    \/ SingleProbeNotFound
    \/ SingleProbeFails
    \/ SingleProbeNoFiles
    \/ SingleProbeScans
    \/ SingleExecNotFound
    \/ SingleExecReplaces
    \/ SingleExecFails

Spec == Init /\ [][Next]_vars

----------------------------------------------------------------------------
(* Properties *)

Batch == argmode # PyNone

\* a batch run that got past the skip flag and the argument check
Running == Batch /\ ~Skipped /\ PathsFromArgs(args)[1] /\ pc # "start"

Dirs_of(buckets) == [k \in DOMAIN buckets |-> buckets[k][1]]

CmdCalls == {i \in DOMAIN calls : calls[i].kind = "cmd"}

\* directory a is a strict ancestor of directory d, both relative to the root
IsStrictAncestor(a, d) == Len(a) < Len(d) /\ SubSeq(d, 1, Len(a)) = a

\* the requested mode is missing from the registry a completed scan left
ModeUndefined == Batch /\ visited # <<>> /\ exc = "none" /\ argmode \notin DOMAIN modes

\* C1: in a batch run, a command of a bucket's sequence that exits non-zero
\* is the last invocation made for that bucket, its exit code is the code
\* recorded for the bucket and folded into the aggregate, the run is not
\* aborted, and the buckets still to visit are exactly the scheduled ones.
C1_FailedStepEndsBucketOnly ==
    /\ Batch =>
         \A i \in CmdCalls :
            calls[i].rc # 0 =>
               /\ i = Len(calls)
               /\ bucketrec = <<calls[i].rc>>
               /\ returncode >= calls[i].rc
               /\ pc \in {"next", "done"}
               /\ exc = "none"
    /\ Running =>
         visited \o Dirs_of(queue)
            = Dirs_of(BucketOrder(GetFilesByDepth(PathsFromArgs(args)[2])))

\* the second of three commands failed with 2, the third was never run, and
\* another bucket is waiting
C1_Witness ==
    /\ Batch /\ pc = "next" /\ queue # <<>>
    /\ Len(calls) = 4
    /\ calls[3].kind = "cmd" /\ calls[3].rc = 0
    /\ calls[4].kind = "cmd" /\ calls[4].rc = 2
    /\ Len(todo) = 2
    /\ bucketrec = <<2>>

\* C2: the commands of the requested mode are invoked in strictly ascending
\* index order whatever the order of their sentinels, the commands not yet
\* run have indices no smaller than those run, and a sequence that ran to its
\* end invoked every declared index.
C2_AscendingIndexOrder ==
    Batch =>
      /\ \A i, j \in CmdCalls : i < j => calls[i].idx < calls[j].idx
      /\ \A i \in CmdCalls : \A k \in DOMAIN todo : calls[i].idx <= todo[k][1]
      /\ (pc = "next" /\ CmdCalls # {} /\ \A i \in CmdCalls : calls[i].rc = 0) =>
            {calls[i].idx : i \in CmdCalls}
               = {modes[argmode][k][1] : k \in DOMAIN modes[argmode]}

\* declared 0, 5, 2 and run 0, 2, 5
C2_Witness ==
    /\ Batch /\ pc = "next"
    /\ argmode \in DOMAIN modes
    /\ [k \in DOMAIN modes[argmode] |-> modes[argmode][k][1]] = <<0, 5, 2>>
    /\ Len(calls) = 5
    /\ <<calls[3].idx, calls[4].idx, calls[5].idx>> = <<0, 2, 5>>
    /\ \A i \in CmdCalls : calls[i].rc = 0

\* C3: of two buckets one of whose directories is a strict ancestor of the
\* other's (the root "." is an ancestor of every directory under it), the
\* descendant is entered first.
C3_DescendantBeforeAncestor ==
    Batch => \A i, j \in DOMAIN visited : i < j => ~IsStrictAncestor(visited[i], visited[j])

\* C4: the value a completed batch run returns is the greatest recorded
\* per-bucket code, 0 when none was recorded, and it is 0 only if no step
\* failed and no required mode was undefined.
C4_AggregateIsMaxAndZeroOnlyIfClean ==
    (Running /\ pc = "done") =>
      /\ result = IF recmax = <<>> THEN 0 ELSE recmax[1]
      /\ result = 0 => ("cmd-failed" \notin diag /\ "mode-undefined" \notin diag)

\* C5: under mode_require, a bucket whose scan left the requested mode out
\* of the registry records a failure of at least 1, has no invocation but the
\* probe, leaves the run going, and makes the value returned at least 1.
C5_RequiredModeUndefinedFails ==
    /\ (ModeUndefined /\ mode_require) =>
         /\ Len(bucketrec) = 1 /\ bucketrec[1] >= 1
         /\ returncode >= 1
         /\ "mode-undefined" \in diag
         /\ \A i \in DOMAIN calls : calls[i].kind = "probe"
         /\ pc \in {"next", "done"}
         /\ pc = "done" => queue = <<>>
    /\ (Batch /\ pc = "done" /\ "mode-undefined" \in diag) => result >= 1

\* a required mode is undefined in a bucket whose dump defines other modes,
\* after an earlier bucket and before a later one
C5_Witness ==
    /\ ModeUndefined /\ mode_require /\ pc = "next"
    /\ DOMAIN modes # {}
    /\ Len(visited) = 2 /\ queue # <<>>
    /\ returncode = 1

\* C6: without mode_require, a bucket whose scan left the requested mode
\* out of the registry records nothing, has no invocation but the probe and
\* leaves the run going; the aggregate stays 0 until a sequence step fails.
C6_OptionalModeUndefinedSkips ==
    /\ (ModeUndefined /\ ~mode_require) =>
         /\ bucketrec = <<>>
         /\ "mode-undefined" \notin diag
         /\ \A i \in DOMAIN calls : calls[i].kind = "probe"
         /\ pc \in {"next", "done"}
         /\ pc = "done" => queue = <<>>
    /\ (Running /\ ~mode_require /\ "cmd-failed" \notin diag) =>
         (returncode = 0 /\ recmax = <<>> /\ (pc = "done" => result = 0))

\* the mode is undefined in the second of three buckets and nothing failed
C6_Witness ==
    /\ ModeUndefined /\ ~mode_require /\ pc = "next"
    /\ Len(visited) = 2 /\ queue # <<>>
    /\ Len(calls) = 1
    /\ returncode = 0

C8_DelimiterRule ==
    (Batch /\ ~Skipped /\ pc # "start") =>
      LET at == {i \in DOMAIN args : args[i] = DashDash}
      IN IF at # {} /\ 1 \notin at
         THEN /\ pc = "done" /\ result = 3
              /\ "bad-args" \in diag
              /\ calls = <<>> /\ visited = <<>> /\ cwd = InitWd
         ELSE /\ pc = "done" => result # 3
              /\ "bad-args" \notin diag
              /\ visited \o Dirs_of(queue)
                   = Dirs_of(BucketOrder(GetFilesByDepth(
                        IF at = {} THEN args ELSE Tail(args))))

\* <<x.py, --, a/y.py>> is rejected
C8_Witness ==
    /\ Batch /\ ~Skipped /\ pc = "done" /\ result = 3
    /\ Len(args) = 3 /\ args[1] # DashDash /\ args[2] = DashDash /\ args[3] # DashDash

\* the prefix the documented precedence gives: the override, else
\* RUFFWRAP_EXEC, else ruff on PATH, else the uvx launcher
DocumentedExec(override) ==
    IF override # <<>> THEN override
    ELSE IF environ.RUFFWRAP_EXEC # PyNone THEN environ.RUFFWRAP_EXEC
    ELSE ResolveExec(FALSE, <<>>, environ)

\* C9: without the skip flag every invocation starts with the tokens of the
\* sentinel override when one is in effect, else of RUFFWRAP_EXEC when it is
\* set, else of the PATH search; a set RUFFWRAP_EXEC therefore never leaves
\* the run without an executable.
C9_ResolutionPrecedence ==
    ~Skipped =>
      /\ \A i \in DOMAIN calls :
           LET want == ShlexSplit(DocumentedExec(IF calls[i].kind = "probe" THEN <<>> ELSE exec))
           IN SubSeq(calls[i].argv, 1, Len(want)) = want
      /\ environ.RUFFWRAP_EXEC # PyNone => exc \notin {"FileNotFoundError", "UnboundLocalError"}

\* C10: a single-mode run that can resolve no executable ends by returning
\* 200 after writing the error to stderr, with the skip flag or without.
C10_NotFoundReturns200 ==
    (~Batch /\ pc \notin {"start", "exec"} /\ ResolveExec(Skipped, exec, environ) = NotFound) =>
      (pc = "done" /\ result = 200 /\ "exec-error" \in diag)

\* C11: in a batch run, a bucket for which no executable can be resolved
\* records a failure of at least 1 and leaves the run going: no exception
\* leaves run.
C11_UnresolvedIsBucketLocal ==
    (Batch /\ visited # <<>> /\ ResolveExec(Skipped, exec, environ) = NotFound) =>
      /\ exc = "none"
      /\ pc \in {"next", "done"}
      /\ returncode >= 1

\* what the scan of each dump yields from an empty state; no dump when the
\* probe failed
FreshScan == [d \in Dumps \cup {<<>>} |-> ScanDump(TRUE, ResetState, d)]

\* what the scan of the current bucket's dump yields from an empty state
OwnScan == FreshScan[stdout]

\* C12: in a bucket of a batch run the override and the registry are what the
\* scan of the bucket's own dump yields from an empty state (nothing, when the
\* probe reported no files), the probe is resolved without an override, and
\* the listing and every command are resolved with the bucket's own override
\* and taken from the bucket's own registry.
C12_NoCrossDirectoryLeakage ==
    (Batch /\ visited # <<>>) =>
      LET own    == OwnScan
          first  == ShlexSplit(ResolveExec(FALSE, <<>>, environ))
          after  == ShlexSplit(ResolveExec(FALSE, own.exec, environ))
      IN /\ exec = own.exec
         /\ modes = own.modes
         /\ \A i \in DOMAIN calls :
              LET want == IF calls[i].kind = "probe" THEN first ELSE after
              IN /\ SubSeq(calls[i].argv, 1, Len(want)) = want
                 /\ calls[i].kind = "cmd" =>
                      /\ argmode \in DOMAIN own.modes
                      /\ \E k \in DOMAIN own.modes[argmode] :
                           /\ own.modes[argmode][k][1] = calls[i].idx
                           /\ calls[i].argv = want \o own.modes[argmode][k][2]

\* a bucket whose probe reported no files, after a bucket whose registry had
\* the requested mode (one of its commands failed with 2)
C12_Witness ==
    /\ Batch /\ pc = "next" /\ Len(visited) >= 2
    /\ returncode = 2
    /\ Len(calls) = 1 /\ calls[1].kind = "probe" /\ calls[1].rc # 0
    /\ exec = <<>> /\ modes = <<>>

\* C17: under mode_require, a bucket whose dump activates the standard
\* definition of the requested mode m, which has no built-in, has m in the
\* registry with no command: no failure is recorded and no command is
\* invoked; the bucket whose dump is the same without the activation has m
\* undefined and records a failure of at least 1.
C17_DefinedButEmpty ==
    (Batch /\ visited # <<>> /\ mode_require) =>
      /\ stdout = DumpEmptyMode =>
           /\ argmode \in DOMAIN modes
           /\ modes[argmode] = <<>>
           /\ bucketrec = <<>>
           /\ CmdCalls = {}
      /\ stdout = DumpNoSentinels =>
           /\ argmode \notin DOMAIN modes
           /\ Len(bucketrec) = 1 /\ bucketrec[1] >= 1
           /\ returncode >= 1
           /\ CmdCalls = {}

\* the listing found files of the bucket, and the bucket ended with nothing
\* run and nothing recorded
C17_Witness ==
    /\ Batch /\ mode_require /\ pc = "next"
    /\ stdout = DumpEmptyMode
    /\ Len(calls) = 2 /\ calls[2].kind = "list" /\ calls[2].rc = 0
    /\ paths # {}
    /\ returncode = 0

\* C19: with RUFFWRAP_SKIP set a single-mode run makes no probe and applies
\* no override: the one command it builds is the tokens of RUFFWRAP_EXEC (of
\* the PATH search when that is unset) followed by the passthrough arguments
\* in their order.
C19_SkipUsesEnvironmentDefault ==
    (~Batch /\ Skipped) =>
      LET prefix == IF environ.RUFFWRAP_EXEC # PyNone THEN ShlexSplit(environ.RUFFWRAP_EXEC)
                    ELSE IF "ruff" \in environ.PATH THEN <<WhichRuff>>
                    ELSE <<WhichUvx, <<"ruff">> >>
      IN /\ exec = <<>> /\ stdout = <<>>
         /\ \A i \in DOMAIN calls :
              calls[i].kind = "exec" /\ calls[i].argv = prefix \o args
         /\ pc \in {"replaced", "done"} => Len(calls) = 1

\* RUFFWRAP_EXEC is used although ruff is on PATH, before two arguments
C19_Witness ==
    /\ ~Batch /\ skip = <<"1">> /\ pc = "replaced"
    /\ environ.RUFFWRAP_EXEC = <<"/env/ruff">> /\ "ruff" \in environ.PATH
    /\ Len(args) = 2
    /\ calls = <<[kind |-> "exec", cwd |-> InitWd, argv |-> << <<"/env/ruff">> >> \o args,
                  files |-> {}, idx |-> 0, rc |-> 0]>>

\* C20: in single mode a failed os.execvp, whatever the OS error, ends the run
\* by returning 200 with the error on stderr, and the run returns at all only
\* after a failed os.execvp.
C20_ExecFailureReturns200 ==
    ~Batch =>
      /\ \A i \in DOMAIN calls :
           (calls[i].kind = "exec" /\ calls[i].rc # 0) =>
              /\ pc = "done" /\ result = 200
              /\ "exec-error" \in diag
              /\ exc = "none"
      /\ pc = "done" =>
           /\ calls # <<>>
           /\ calls[Len(calls)].kind = "exec" /\ calls[Len(calls)].rc # 0
           /\ result = 200
      /\ \A i \in DOMAIN calls :
           (calls[i].kind = "exec" /\ calls[i].rc = 0) => pc = "replaced"

\* the override recovered by the probe cannot be executed
C20_Witness ==
    /\ ~Batch /\ ~Skipped /\ pc = "done" /\ result = 200
    /\ exec = <<"/opt/ruff">>
    /\ Len(calls) = 2 /\ calls[2].kind = "exec" /\ calls[2].rc # 0
    /\ "exec-error" \in diag

\* C21: a probe that exits non-zero with anything but the no-files sentence
\* on its stderr ends the whole run: its stderr is printed and the exception
\* leaves run, so the probe is the bucket's only invocation, no bucket is
\* entered after it and no exit code is returned.
C21_ProbeFailureIsFatal ==
    /\ \A i \in DOMAIN calls :
         ( /\ calls[i].kind = "probe" /\ calls[i].rc # 0
           /\ \A k \in DOMAIN stderr : stderr[k] # NO_FILES ) =>
            /\ pc = "raised" /\ exc = "CalledProcessError"
            /\ "probe-stderr" \in diag
            /\ Len(calls) = 1
            /\ Batch => cwd = BucketDir(visited[Len(visited)])
    /\ "probe-stderr" \in diag =>
         /\ pc = "raised"
         /\ Len(calls) = 1 /\ calls[1].kind = "probe" /\ calls[1].rc # 0

\* the probe of a second bucket fails on a broken configuration while a
\* third bucket waits
C21_Witness ==
    /\ Batch /\ Len(visited) = 2 /\ queue # <<>>
    /\ pc = "raised" /\ exc = "CalledProcessError"
    /\ stderr = <<"error: ", "Failed to parse pyproject.toml">>
    /\ Len(calls) = 1 /\ calls[1].kind = "probe" /\ calls[1].rc = 2

\* C22: a probe that exits non-zero with the no-files sentence on its stderr
\* makes process_sentinels return without an error and without a line
\* scanned, the override and the registry empty.  A batch run treats the
\* bucket as one without sentinels: no listing, no command, and a failure of
\* 1 recorded exactly under mode_require; a single run goes on to the tool
\* with the default executable.
C22_NoFilesIsNoSentinels ==
    \A i \in DOMAIN calls :
      ( /\ calls[i].kind = "probe" /\ calls[i].rc # 0
        /\ \E k \in DOMAIN stderr : stderr[k] = NO_FILES ) =>
         /\ i = 1
         /\ exc = "none" /\ "probe-stderr" \notin diag
         /\ stdout = <<>> /\ lineno = 0
         /\ exec = <<>> /\ modes = <<>>
         /\ Batch =>
              /\ pc \in {"next", "done"}
              /\ Len(calls) = 1
              /\ bucketrec = IF mode_require THEN <<1>> ELSE <<>>
              /\ mode_require => "mode-undefined" \in diag /\ returncode >= 1
         /\ ~Batch =>
              /\ pc \in {"exec", "replaced"}
              /\ \A j \in DOMAIN calls :
                   j > 1 => /\ calls[j].kind = "exec"
                            /\ calls[j].argv = ShlexSplit(ResolveExec(FALSE, <<>>, environ)) \o args

\* under mode_require the probe of a bucket reports no files while another
\* bucket waits: a failure of 1 is recorded and the run goes on
C22_Witness ==
    /\ Batch /\ mode_require /\ pc = "next" /\ queue # <<>>
    /\ stderr = <<"warning: ", NO_FILES>>
    /\ Len(calls) = 1 /\ calls[1].kind = "probe" /\ calls[1].rc = 2
    /\ bucketrec = <<1>> /\ exec = <<>> /\ modes = <<>>

\* C23: every command of a sequence gets as file arguments exactly the names
\* of the files that are both in the bucket's set and among the lines the
\* listing printed, each a file of the working directory.  When no file is
\* in both, the bucket ends with the listing: no command is invoked and no
\* failure is recorded, under mode_require too; otherwise a non-empty
\* sequence is started.
C23_FilesAreTheIntersection ==
    (Batch /\ \E i \in DOMAIN calls : calls[i].kind = "list" /\ calls[i].rc = 0) =>
      LET both == show_files \cap abs_paths
      IN /\ \A i \in CmdCalls :
              /\ calls[i].files = {f[Len(f)] : f \in both}
              /\ \A f \in both : SubSeq(f, 1, Len(f) - 1) = calls[i].cwd
         /\ both = {} =>
              /\ CmdCalls = {}
              /\ pc \in {"next", "done"}
              /\ bucketrec = <<>>
         /\ (both # {} /\ modes[argmode] # <<>>) => (pc = "seq" \/ CmdCalls # {})

\* the listing prints the bucket's file and a file that was not passed; the
\* command gets the bucket's file alone
C23_Witness ==
    /\ Batch /\ mode_require
    /\ abs_paths = {<<"r", "a", "y.py">>}
    /\ show_files = {<<"r", "a", "y.py">>, <<"r", "a", "other.py">>}
    /\ Len(calls) = 3 /\ calls[3].kind = "cmd" /\ calls[3].files = {"y.py"}

\* the directory a bucket's key names, seen from the invocation root
Under(dir_path) == NormFrom(InitWd \o dir_path, 1, <<>>)

\* C25: the invocations of a bucket are the probe, then the listing, issued
\* only if the probe left the requested mode defined, then the commands,
\* issued only after a listing that exited zero and left a file, each after
\* the one before it exited zero; all of them are issued in the bucket's
\* directory, which is the working directory, and a bucket whose mode is
\* defined is not left without its listing.
C25_BucketProtocol ==
    (Batch /\ calls # <<>>) =>
      /\ cwd = Under(visited[Len(visited)])
      /\ \A i \in DOMAIN calls :
           /\ calls[i].cwd = Under(visited[Len(visited)])
           /\ i = 1 => calls[i].kind = "probe"
           /\ i = 2 => /\ calls[i].kind = "list"
                       /\ argmode \in DOMAIN modes
                       /\ calls[1].rc = 0
           /\ i > 2 => /\ calls[i].kind = "cmd"
                       /\ calls[i - 1].rc = 0
                       /\ show_files \cap abs_paths # {}
      /\ (pc \in {"seq", "next", "done"} /\ argmode \in DOMAIN modes) => Len(calls) >= 2
      /\ pc = "seq" => Len(calls) >= 2 /\ calls[Len(calls)].rc = 0

\* the second bucket of a run, one level above the first: probe, listing and
\* two commands, all in its directory
C25_Witness ==
    /\ Batch /\ Len(visited) = 2 /\ cwd = <<"r", "a">>
    /\ Len(calls) = 4
    /\ calls[1].kind = "probe" /\ calls[2].kind = "list"
    /\ calls[3].kind = "cmd" /\ calls[4].kind = "cmd"
    /\ \A i \in DOMAIN calls : calls[i].cwd = <<"r", "a">>

\* C26: a listing that exits non-zero is local to its bucket: no exception
\* leaves run, the bucket ends without a command, and the run goes on to the
\* buckets that remain and returns the aggregate.
C26_ListingFailureIsLocal ==
    (Batch /\ \E i \in DOMAIN calls : calls[i].kind = "list" /\ calls[i].rc # 0) =>
      /\ exc = "none"
      /\ pc \in {"next", "done"}
      /\ CmdCalls = {}

----------------------------------------------------------------------------
(* Properties of the scan *)

\* the line starts with the header literal
IsHeader(line) == line # <<>> /\ line[1] = HDR

\* the last character of the line is "]"
EndsBlock(line) == line # <<>> /\ line[Len(line)] = RB

Headers == {h \in DOMAIN stdout : IsHeader(stdout[h])}

\* line i is at or after the first header line and no line from that header
\* to line i ends the block
InWindow(i) ==
    /\ Headers # {}
    /\ \A h \in Headers : (\A g \in Headers : h <= g) =>
         (h <= i /\ \A k \in h..i : ~EndsBlock(stdout[k]))

\* the rules registered for the mode of operation that match the line
Matching(line) ==
    {r \in (IF Batch THEN {"exec", "default_definition", "cmd"} ELSE {"exec"}) :
        RuleMatch(r, line).matched}

\* the first of them in registration order
FirstMatching(line) ==
    IF "exec" \in Matching(line) THEN "exec"
    ELSE IF "default_definition" \in Matching(line) THEN "default_definition"
    ELSE "cmd"

\* C13: a handler is called only for lines at or after the first header line
\* and before the first line from there on that ends with "]"; no other line
\* changes the override or the registry, and a dump without a header line
\* changes nothing.
C13_ScanWindow ==
    /\ \A i \in DOMAIN fired : fired[i] # <<>> => InWindow(i)
    /\ \A i \in touched : InWindow(i)
    /\ Headers = {} =>
         /\ exec = <<>> /\ modes = <<>> /\ exc = "none"
         /\ \A i \in DOMAIN fired : fired[i] = <<>>

\* a header, a terminator, then an override sentinel that is not looked at
C13_Witness ==
    /\ pc = "returned" /\ lineno = 2 /\ Len(stdout) = 3
    /\ stdout[1] = <<HDR>> /\ stdout[2] = <<RB>>
    /\ stdout[3] = ExecLine(<<"/opt/ruff">>)
    /\ exec = <<>>

\* C14: a line inside the scan window that matches no registered rule,
\* whatever its content (an empty line too), raises nothing, changes nothing,
\* and the scan goes on.
C14_UnmatchedLineIsSkipped ==
    (lineno >= 1 /\ InWindow(lineno) /\ Matching(stdout[lineno]) = {}) =>
      /\ exc = "none"
      /\ pc # "raised"
      /\ lineno \notin touched

\* C15: for every line taken at most one handler is called, and it is that of
\* the first rule in registration order (executable override, activation,
\* indexed command; the override alone in single mode) whose pattern matches
\* somewhere in the line; inside the window a matching line has its handler
\* called.
C15_FirstMatchWins ==
    \A i \in DOMAIN fired :
       /\ Len(fired[i]) <= 1
       /\ fired[i] # <<>> => fired[i] = <<FirstMatching(stdout[i])>>
       /\ (InWindow(i) /\ Matching(stdout[i]) # {}) => fired[i] # <<>>

\* in batch mode a line that all three patterns match goes to the override
\* handler alone
C15_Witness ==
    /\ Batch /\ lineno = 2
    /\ Matching(stdout[2]) = {"exec", "default_definition", "cmd"}
    /\ fired[2] = <<"exec">>
    /\ modes = <<>>

\* C16: in batch mode a scanned line __RUFFWRAP_MODE_m_CMD_10__check, records
\* the tokens <<check>> under mode m at index 10, without error.
C16_MultiDigitIndexRecorded ==
    (Batch /\ lineno >= 1 /\ InWindow(lineno)
       /\ stdout[lineno] = Entry(<<MODE_LIT, "m", CMD_LIT, "1", "0", UU, "check">>)) =>
      /\ exc = "none"
      /\ <<"m">> \in DOMAIN modes
      /\ \E k \in DOMAIN modes[<<"m">>] : modes[<<"m">>][k] = <<10, << <<"check">> >> >>

\* C18: when exactly one line of the dump matches a pattern, that line is a
\* well-formed override sentinel inside the scan window, and every other line
\* inside the window is a non-empty entry, the override once the scan has
\* taken the line is exactly the sentinel's value and the scan raises nothing.
C18_OverrideIsExactlyTheValue ==
    \A i \in DOMAIN stdout : \A v \in {<<"uvx", SP, "ruff">>, <<"/opt/ruff">>} :
       ( /\ stdout[i] = <<TAB, EXEC_LIT>> \o v \o <<COMMA>>
         /\ InWindow(i)
         /\ \A j \in DOMAIN stdout : j # i => Matching(stdout[j]) = {}
         /\ \A j \in DOMAIN stdout : InWindow(j) => stdout[j] # <<>>
         /\ lineno >= i )
       => (exec = v /\ exc = "none")

\* an entry of another block, the header, then the override "uvx ruff"
C18_Witness ==
    /\ pc = "returned" /\ lineno = 3
    /\ stdout = <<Entry(<<"E501">>), <<HDR>>, ExecLine(<<"uvx", SP, "ruff">>)>>
    /\ exec = <<"uvx", SP, "ruff">>

----------------------------------------------------------------------------
(* Properties of the grouping *)

\* the buckets of files_by_depth, each with its depth and its key
Buckets ==
    UNION {{<<files_by_depth[d][1], files_by_depth[d][2][k][1], files_by_depth[d][2][k][2]>> :
              k \in DOMAIN files_by_depth[d][2]} : d \in DOMAIN files_by_depth}

\* the absolute paths of the paths taken so far that are not directories
FilesTaken == {AbsPath(args[i]) : i \in {j \in 1..pathno : AbsPath(args[j]) \notin Dirs}}

\* the number of "/" in a relative path written out: "." and "a" have none
Separators(rel) == IF Len(rel) <= 1 THEN 0 ELSE Len(rel) - 1

\* C24: _get_files_by_depth partitions the paths it has taken: every path
\* that is not a directory is, as its absolute path, in exactly one bucket;
\* a bucket holds nothing else and is never empty, so a directory is in no
\* bucket, and no error is raised; the key of a bucket is the parent
\* directory of its files relative to the invocation root, no key and no
\* depth occurs twice, and the depth a bucket is filed under is the number
\* of separators in its key.
C24_GroupingPartitions ==
    /\ exc = "none"
    /\ \A f \in FilesTaken : Cardinality({b \in Buckets : f \in b[3]}) = 1
    /\ \A b \in Buckets :
         /\ b[3] # {} /\ b[3] \subseteq FilesTaken
         /\ \A f \in b[3] : b[2] = RelPath(SubSeq(f, 1, Len(f) - 1), InitWd)
         /\ b[1] = Separators(b[2])
    /\ \A d, e \in DOMAIN files_by_depth :
         /\ files_by_depth[d][1] = files_by_depth[e][1] => d = e
         /\ \A k \in DOMAIN files_by_depth[d][2], l \in DOMAIN files_by_depth[e][2] :
              files_by_depth[d][2][k][1] = files_by_depth[e][2][l][1] => (d = e /\ k = l)

\* a directory and two files of the root: one bucket of two files
C24_Witness ==
    /\ pc = "returned"
    /\ args = <<<<"x.py">>, <<"a">>, <<"w.py">>>>
    /\ files_by_depth = <<<<0, <<<<<<>>, {<<"r", "x.py">>, <<"r", "w.py">>}>>>>>>>>

----------------------------------------------------------------------------
(* Properties of the registry during the scan *)

\* the lines taken whose activation handler was called for the mode
Activations(name) ==
    {i \in 1..lineno : /\ fired[i] = <<"default_definition">>
                       /\ DefaultDefinitionMatch(stdout[i]).MODE = name}

\* the lines taken whose command handler was called for the mode with an
\* index that int() accepts
Commands(name) ==
    {i \in 1..lineno : /\ fired[i] = <<"cmd">>
                       /\ CmdMatch(stdout[i]).MODE = name
                       /\ CmdMatch(stdout[i]).IDX \in Digits}

\* the modes some handler was called for
Named ==
    {DefaultDefinitionMatch(stdout[i]).MODE :
        i \in {j \in 1..lineno : fired[j] = <<"default_definition">>}}
    \cup {CmdMatch(stdout[i]).MODE :
             i \in {j \in 1..lineno : /\ fired[j] = <<"cmd">>
                                       /\ CmdMatch(stdout[j]).IDX \in Digits}}

\* the items the lines taken leave in the sequence of the mode: of the
\* commands after the last activation the last for each index, and of the
\* built-in installed by that activation the items no such command replaced
ItemsLeft(name) ==
    LET acts  == {0} \cup Activations(name)
        last  == CHOOSE a \in acts : \A b \in acts : b <= a
        live  == {i \in Commands(name) : i > last}
        index(i) == DigitVal(CmdMatch(stdout[i]).IDX)
        final == {i \in live : \A k \in live : index(k) = index(i) => k <= i}
        builtin == IF last = 0 THEN <<>> ELSE ModeDefaultDefinition(name)
    IN {<<index(i), ShlexSplit(CmdMatch(stdout[i]).ARGS)>> : i \in final}
       \cup {builtin[k] : k \in {j \in DOMAIN builtin :
                                    \A i \in live : index(i) # builtin[j][1]}}

\* C27: the sequence of a mode depends on the order of the lines: after
\* every line of a scan the registry has exactly the modes a handler was
\* called for, and the sequence of each holds, one item an index, the last
\* command for each index among the commands after the mode's last
\* activation, and the items of the built-in that activation installed, save
\* those whose index such a command has; a command before the activation
\* leaves nothing.
C27_LineOrderDecides ==
    \A name \in Named \cup DOMAIN modes :
       /\ name \in Named /\ name \in DOMAIN modes
       /\ {modes[name][k] : k \in DOMAIN modes[name]} = ItemsLeft(name)
       /\ Len(modes[name]) = Cardinality(ItemsLeft(name))

\* a command for index 1 of verify, then the activation of verify: the
\* built-in is installed whole
C27_Witness ==
    /\ lineno = 3
    /\ stdout = << <<HDR>>, CmdLine("verify", "1", <<"check">>), DefLine("verify") >>
    /\ modes = (<<"verify">> :> VerifyModeDefaultDefinition)

====
